---- MODULE Spec2Model ----
(***************************************************************************)
(* nvmecontrol logpage: the log-page decoders of sbin/nvmecontrol/logpage.c *)
(* as state machines.  One decoder run is one behaviour: the buffer is      *)
(* fixed by Init (what the device wrote into the zero-filled allocation),   *)
(* and every loop iteration of a decoder is one action.                     *)
(*                                                                          *)
(* Offsets are byte offsets from the start of the page buffer.  A string    *)
(* is a sequence of chunks (each chunk a piece of text); a 64-bit value is  *)
(* kept as its little-endian bytes, a 48-bit value as 16-bit limbs.         *)
(***************************************************************************)
EXTENDS Integers, Sequences, FiniteSets, TLC

VARIABLES
    pc,        \* position of the running function
    rpc,       \* where the running sub-decoder returns to
    buf,       \* the bytes the device wrote at the start of the buffer
    size,      \* bytes allocated by get_log_buffer (zero-filled)
    reads,     \* offsets read by the last step
    rdMax,     \* highest offset read so far (-1: none)
    out,       \* what was printed, in order
    calls,     \* the sub-decoder calls kv_indirect was asked for, in order
    walker,    \* cursor of the page decoder
    end,       \* end of the page decoder's walk
    subpage,   \* print_hgst_info_log: start of the record's payload
    subtype,   \* print_hgst_info_log: the record's subtype
    res,       \* print_hgst_info_log: the record's reserved byte
    len,       \* print_hgst_info_log: header length, then record length
    fn,        \* the sub-decoder kv_indirect called
    wsp,       \* cursor of the running sub-decoder
    esp,       \* print_hgst_info_subpage_gen: end of the subpage
    plen,      \* print_hgst_info_subpage_gen: value length of the last parameter
    ssize,     \* size argument of the running sub-decoder (uint32_t, as limbs)
    i,         \* print_hgst_info_self_test: loop index
    bad,       \* kv_lookup: its static char bad[32]
    log_page,  \* logpage: the page id of -p
    hexflag,   \* logpage: -x was given
    ns_specified, \* logpage: the device argument names a namespace
    cdata,     \* logpage: the controller data (elpe, lpa.ns_smart)
    print_fn,  \* logpage: the decoder chosen
    arg,       \* the arguments of the function called on its own
    ret        \* what that function returned

\* What a decoder leaves alone.
lpVars == <<log_page, hexflag, ns_specified, cdata, print_fn, arg, ret>>

\* What logpage's own steps leave alone.
decVars == <<rpc, reads, rdMax, walker, end, subpage, subtype, res, len, fn,
             wsp, esp, plen, ssize, i, bad>>

vars == <<pc, rpc, buf, size, reads, rdMax, out, calls, walker, end, subpage,
          subtype, res, len, fn, wsp, esp, plen, ssize, i, bad, lpVars>>

\* ------------------------------------------------------------------ bounds

\* Records in a generated HGST page.
MaxRecs == 2
\* Values handed to uint128_to_str: 0 .. MaxU, and two longer ones.
MaxU == 120
\* Buffer lengths handed to uint128_to_str: 1 .. MaxBufLen, and the callers'.
MaxBufLen == 5
\* Entries of a table handed to kv_lookup.
MaxKv == 2
\* Records the device wrote into the additional SMART page.
MaxSmart == 2

\* ------------------------------------------------------- program constants

DEFAULT_SIZE == 4096

\* Values an out-of-buffer read may produce.
UbBytes == {0, 16, 255}

\* ----------------------------------------------------------------- buffer

Max(a, b) == IF a > b THEN a ELSE b
Min(a, b) == IF a < b THEN a ELSE b

SetMax(S, d) == IF S = {} THEN d ELSE CHOOSE x \in S : \A y \in S : y <= x

\* get_log_buffer: the allocation is zero-filled; the device wrote buf.
Byte(off) == IF off < Len(buf) THEN buf[off + 1] ELSE 0

\* The values a read of offset off may produce: the byte when off is inside
\* the allocation, anything when it is outside.
ReadVals(off) == IF off >= 0 /\ off < size THEN {Byte(off)} ELSE UbBytes

Oob(offs) == \E o \in offs : o < 0 \/ o >= size

le16dec(b0, b1) == b0 + 256 * b1

\* ------------------------------------------------------------- kv_lookup

HexDigit(d) ==
    <<"0", "1", "2", "3", "4", "5", "6", "7",
      "8", "9", "a", "b", "c", "d", "e", "f">>[d + 1]

RECURSIVE HexChunks(_)
\* printf's %x: the hexadecimal digits of n, most significant first.
HexChunks(n) ==
    IF n < 16 THEN <<HexDigit(n)>>
    ELSE Append(HexChunks(n \div 16), HexDigit(n % 16))

\* printf's %#x: "0x" before the digits of a non-zero value, "0" for zero.
FmtHashX(n) == IF n = 0 THEN <<"0">> ELSE <<"0", "x">> \o HexChunks(n)

AttributeText == <<"A", "t", "t", "r", "i", "b", "u", "t", "e", " ">>

\* sizeof(bad)
BadSize == 32

\* snprintf(bad, sizeof(bad), "Attribute %#x", key): at most sizeof(bad) - 1
\* characters are stored.
snprintf_bad(key) ==
    LET full == AttributeText \o FmtHashX(key)
    IN  SubSeq(full, 1, Min(Len(full), BadSize - 1))

RECURSIVE kv_scan(_, _, _, _)
\* The for loop of kv_lookup from index n on: the first entry with the key.
kv_scan(kv, kv_count, key, n) ==
    IF n < kv_count
    THEN IF kv[n + 1].key = key
         THEN [hit |-> TRUE, name |-> <<kv[n + 1].name>>]
         ELSE kv_scan(kv, kv_count, key, n + 1)
    ELSE [hit |-> FALSE, name |-> snprintf_bad(key)]

RECURSIVE kv_scan_back(_, _, _, _)
kv_scan_back(kv, kv_count, key, n) ==
    IF n > 0
    THEN IF kv[n].key = key
         THEN [hit |-> TRUE, name |-> <<kv[n].name>>]
         ELSE kv_scan_back(kv, kv_count, key, n - 1)
    ELSE [hit |-> FALSE, name |-> snprintf_bad(key)]

kv_lookup_lastMatch(kv, kv_count, key) == kv_scan_back(kv, kv_count, key, kv_count)

\* kv_lookup: hit tells whether the name is the table's; on a miss the name
\* is what was formatted into bad.
kv_lookup(kv, kv_count, key) == kv_scan(kv, kv_count, key, 0)

KV(k, n) == [key |-> k, name |-> n]

\* ------------------------------------------------- HGST subpage tables

hgst_subpage ==
    << [key |-> 2,  fn |-> "print_hgst_info_write_errors"],
       [key |-> 3,  fn |-> "print_hgst_info_read_errors"],
       [key |-> 5,  fn |-> "print_hgst_info_verify_errors"],
       [key |-> 16, fn |-> "print_hgst_info_self_test"],
       [key |-> 21, fn |-> "print_hgst_info_background_scan"],
       [key |-> 48, fn |-> "print_hgst_info_erase_errors"],
       [key |-> 49, fn |-> "print_hgst_info_erase_counts"],
       [key |-> 50, fn |-> "print_hgst_info_temp_history"],
       [key |-> 55, fn |-> "print_hgst_info_ssd_perf"],
       [key |-> 56, fn |-> "print_hgst_info_firmware_load"] >>

write_errors_kv ==
    << KV(0, "Corrected Without Delay"), KV(1, "Corrected Maybe Delayed"),
       KV(2, "Re-Writes"), KV(3, "Errors Corrected"),
       KV(4, "Correct Algorithm Used"), KV(5, "Bytes Processed"),
       KV(6, "Uncorrected Errors"), KV(32768, "Flash Write Commands"),
       KV(32769, "HGST Special") >>

read_errors_kv ==
    << KV(0, "Corrected Without Delay"), KV(1, "Corrected Maybe Delayed"),
       KV(2, "Re-Reads"), KV(3, "Errors Corrected"),
       KV(4, "Correct Algorithm Used"), KV(5, "Bytes Processed"),
       KV(6, "Uncorrected Errors"), KV(32768, "Flash Read Commands"),
       KV(32769, "XOR Recovered"), KV(32770, "Total Corrected Bits") >>

verify_errors_kv ==
    << KV(0, "Corrected Without Delay"), KV(1, "Corrected Maybe Delayed"),
       KV(2, "Re-Reads"), KV(3, "Errors Corrected"),
       KV(4, "Correct Algorithm Used"), KV(5, "Bytes Processed"),
       KV(6, "Uncorrected Errors"), KV(32768, "Commands Processed") >>

erase_errors_kv ==
    << KV(0, "Corrected Without Delay"), KV(1, "Corrected Maybe Delayed"),
       KV(2, "Re-Erase"), KV(3, "Errors Corrected"),
       KV(4, "Correct Algorithm Used"), KV(5, "Bytes Processed"),
       KV(6, "Uncorrected Errors"), KV(32768, "Flash Erase Commands"),
       KV(32769, "Mfg Defect Count"), KV(32770, "Grown Defect Count"),
       KV(32771, "Erase Count -- User"), KV(32772, "Erase Count -- System") >>

\* The sub-decoders that print a title and call print_hgst_info_subpage_gen,
\* each with its table.
GenKv ==
    [ print_hgst_info_write_errors  |-> write_errors_kv,
      print_hgst_info_read_errors   |-> read_errors_kv,
      print_hgst_info_verify_errors |-> verify_errors_kv,
      print_hgst_info_erase_errors  |-> erase_errors_kv ]

\* The sub-decoders that read a fixed number of bytes whatever size says.
FixedReads ==
    [ print_hgst_info_erase_counts  |-> 0,
      print_hgst_info_temp_history  |-> 16,
      print_hgst_info_ssd_perf      |-> 120,
      print_hgst_info_firmware_load |-> 4 ]

RECURSIVE kv_indirect_scan(_, _, _, _)
kv_indirect_scan(st, sp, nsp, n) ==
    IF n < nsp
    THEN IF sp[n + 1].key = st THEN sp[n + 1].fn
         ELSE kv_indirect_scan(st, sp, nsp, n + 1)
    ELSE "none"

\* kv_indirect: the function of the first entry whose key is the subtype,
\* "none" when the loop ends without one.
kv_indirect(st, sp, nsp) == kv_indirect_scan(st, sp, nsp, 0)

\* ------------------------------------------------------------ uint32_t

\* A uint32_t as two 16-bit limbs <<low, high>>.
U32(n) == <<n % 65536, n \div 65536>>

\* a - n modulo 2^32, for 0 <= n < 65536.
Sub32(a, n) ==
    IF a[1] >= n THEN <<a[1] - n, a[2]>>
    ELSE <<a[1] + 65536 - n, (a[2] + 65535) % 65536>>

\* a / d, for 0 < d < 256.
Div32(a, d) ==
    LET qh == a[2] \div d
        r  == a[2] % d
    IN  <<(r * 65536 + a[1]) \div d, qh>>

\* ------------------------------------------------------ reads and faults

Range(lo, n) == { lo + k : k \in 0 .. n - 1 }

\* An out-of-buffer read may fault.
MayFault(offs) == IF Oob(offs) THEN {TRUE, FALSE} ELSE {FALSE}

Note(offs) ==
    /\ reads' = offs
    /\ rdMax' = Max(rdMax, SetMax(offs, -1))

\* The bytes at off .. off + n - 1, or "undef" when one is outside the buffer.
Bytes(off, n) ==
    IF Oob(Range(off, n)) THEN "undef" ELSE [k \in 1 .. n |-> Byte(off + k - 1)]

\* The process is killed while reading offs.
Fault(offs) ==
    /\ pc' = "fault"
    /\ Note(offs)
    /\ UNCHANGED <<rpc, buf, size, out, calls, walker, end, subpage, subtype,
                   res, len, fn, wsp, esp, plen, ssize, i, bad>>

\* ------------------------------------------------- print_hgst_info_log

\* walker = buf; pages = *walker++; walker++; len = le16dec(walker);
\* walker += 2; end = walker + len.
HgstHeader ==
    /\ pc = "header"
    /\ UNCHANGED lpVars
    /\ \E b2 \in ReadVals(2), b3 \in ReadVals(3) :
          /\ len' = le16dec(b2, b3)
          /\ walker' = 4
          /\ end' = 4 + len'
    /\ Note({0, 2, 3})
    /\ out' = Append(out, <<"HGST Extra Info Log">>)
    /\ pc' = "loop"
    /\ UNCHANGED <<rpc, buf, size, calls, subpage, subtype, res, fn, wsp, esp,
                   plen, ssize, i, bad>>

NextRecord_lengthOnly(w, l) == w + l + 2

\* The cursor after the header of the record at w: subtype = *walker++,
\* res = *walker++, walker += len + 2.
NextRecord(w, l) == (w + 2) + l + 2

\* One pass of while (walker < end) up to walker += len + 2.
HgstRecord ==
    /\ pc = "loop"
    /\ UNCHANGED lpVars
    /\ walker < end
    /\ \E crash \in MayFault(Range(walker, 4)) :
          IF crash THEN Fault(Range(walker, 4))
          ELSE \E b0 \in ReadVals(walker), b1 \in ReadVals(walker + 1),
                  b2 \in ReadVals(walker + 2), b3 \in ReadVals(walker + 3) :
                  /\ subpage' = walker + 4
                  /\ subtype' = b0 % 64
                  /\ res' = b1
                  /\ len' = le16dec(b2, b3)
                  /\ walker' = NextRecord(walker, len')
                  /\ Note(Range(walker, 4))
                  /\ pc' = "check"
                  /\ UNCHANGED <<rpc, buf, size, out, calls, end, fn, wsp, esp,
                                 plen, ssize, i, bad>>

OffTheEnd_refusesExact(w, e) == w >= e

\* if (walker > end)
OffTheEnd(w, e) == w > e

\* What a sub-decoder starts from: its cursor at buf, its size argument.
PcOf(f) ==
    IF f \in DOMAIN GenKv THEN "gen"
    ELSE IF f = "print_hgst_info_self_test" THEN "self_test"
    ELSE IF f = "print_hgst_info_background_scan" THEN "bg_header"
    ELSE "fixed"

TitleOf(f) ==
    IF f = "print_hgst_info_write_errors" THEN "Write Errors Subpage:"
    ELSE IF f = "print_hgst_info_read_errors" THEN "Read Errors Subpage:"
    ELSE IF f = "print_hgst_info_verify_errors" THEN "Verify Errors Subpage:"
    ELSE IF f = "print_hgst_info_erase_errors" THEN "Erase Errors Subpage:"
    ELSE IF f = "print_hgst_info_self_test" THEN "Self Test Subpage:"
    ELSE IF f = "print_hgst_info_background_scan"
         THEN "Background Media Scan Subpage:"
    ELSE IF f = "print_hgst_info_erase_counts" THEN "XXX: Erase counts subpage"
    ELSE IF f = "print_hgst_info_temp_history" THEN "Temperature History:"
    ELSE IF f = "print_hgst_info_ssd_perf" THEN "SSD Performance Subpage Type"
    ELSE "Firmware Load Subpage:"

\* The rest of the pass: the check of the advanced cursor, then kv_indirect.
HgstCheck ==
    /\ pc = "check"
    /\ UNCHANGED lpVars
    /\ IF OffTheEnd(walker, end)
       THEN /\ out' = Append(out, <<"Ooops! Off the end of the list">>)
            /\ pc' = "done"
            /\ UNCHANGED <<rpc, calls, fn, wsp, esp, ssize, i>>
       ELSE LET f == kv_indirect(subtype, hgst_subpage, Len(hgst_subpage))
            IN  /\ calls' = Append(calls, [start |-> subpage - 4,
                                           subtype |-> subtype, res |-> res,
                                           size |-> len, fn |-> f])
                /\ IF f = "none"
                   THEN /\ out' = Append(out, <<"No handler for page type", subtype>>)
                        /\ pc' = "loop"
                        /\ UNCHANGED <<rpc, fn, wsp, esp, ssize, i>>
                   ELSE /\ out' = Append(out, <<TitleOf(f)>>)
                        /\ pc' = PcOf(f)
                        /\ rpc' = "loop"
                        /\ fn' = f
                        /\ wsp' = subpage
                        /\ esp' = subpage + len
                        /\ ssize' = U32(len)
                        /\ i' = 0
    /\ reads' = {}
    /\ UNCHANGED <<buf, size, rdMax, walker, end, subpage, subtype, res, len,
                   plen, bad>>

\* while (walker < end) is false: print_hgst_info_log returns.
HgstReturn ==
    /\ pc = "loop"
    /\ UNCHANGED lpVars
    /\ walker >= end
    /\ pc' = "done"
    /\ reads' = {}
    /\ UNCHANGED <<rpc, buf, size, rdMax, out, calls, walker, end, subpage,
                   subtype, res, len, fn, wsp, esp, plen, ssize, i, bad>>

\* ------------------------------------------ print_hgst_info_subpage_gen

\* for (i = 0; i < plen; i++) param |= (uint64_t)*wsp++ << (i * 8):
\* the number of value bytes the loop consumes.
GenConsumed(pl) == pl

\* param after the loop, as its 8 little-endian bytes: byte i of the value
\* lands in lane i; a shift by 64 or more, or a byte from outside the
\* buffer, leaves it undefined.
GenParamValue(off, pl) ==
    IF pl > 8 \/ Oob(Range(off, pl)) THEN "undef"
    ELSE [k \in 1 .. 8 |-> IF k <= pl THEN Byte(off + k - 1) ELSE 0]

\* One pass of while (wsp < esp): one parameter.
GenParam ==
    /\ pc = "gen"
    /\ UNCHANGED lpVars
    /\ wsp < esp
    /\ \E b0 \in ReadVals(wsp), b1 \in ReadVals(wsp + 1), pl \in ReadVals(wsp + 3) :
          LET n     == GenConsumed(pl)
              offs  == {wsp, wsp + 1, wsp + 3} \cup Range(wsp + 4, n)
              ptype == le16dec(b0, b1)
              r     == kv_lookup(GenKv[fn], Len(GenKv[fn]), ptype)
          IN  \E crash \in MayFault(offs) :
                 IF crash THEN Fault(offs)
                 ELSE /\ plen' = pl
                      /\ wsp' = wsp + 4 + n
                      /\ out' = Append(out, <<"param", r.name, GenParamValue(wsp + 4, n)>>)
                      /\ bad' = IF r.hit THEN bad ELSE r.name
                      /\ Note(offs)
                      /\ UNCHANGED <<pc, rpc, buf, size, calls, walker, end,
                                     subpage, subtype, res, len, fn, esp, ssize, i>>

\* while (wsp < esp) is false: the sub-decoder returns.
GenReturn ==
    /\ pc = "gen"
    /\ UNCHANGED lpVars
    /\ wsp >= esp
    /\ pc' = rpc
    /\ reads' = {}
    /\ UNCHANGED <<rpc, buf, size, rdMax, out, calls, walker, end, subpage,
                   subtype, res, len, fn, wsp, esp, plen, ssize, i, bad>>

\* -------------------------------------------- print_hgst_info_self_test

\* i < size / 20
SelfTestMore(n, sz) ==
    LET q == Div32(sz, 20) IN IF q[2] > 0 THEN TRUE ELSE n < q[1]

SelfTestLength_zeroIsBad(lb) == IF lb = 16 THEN "ok" ELSE "bad"

\* if (*walker == 0) break; if (*walker++ != 0x10) { diagnostic; return; }
SelfTestLength(lb) ==
    IF lb = 0 THEN "last" ELSE IF lb # 16 THEN "bad" ELSE "ok"

\* One pass of for (i = 0; i < size / 20; i++).
SelfTestEntry ==
    /\ pc = "self_test"
    /\ UNCHANGED lpVars
    /\ SelfTestMore(i, ssize)
    /\ \E b0 \in ReadVals(wsp), b1 \in ReadVals(wsp + 1), lb \in ReadVals(wsp + 3) :
          LET code == le16dec(b0, b1)
              offs == {wsp, wsp + 1, wsp + 3}
                        \cup (IF SelfTestLength(lb) = "ok"
                              THEN Range(wsp + 4, 12) ELSE {})
          IN  \E crash \in MayFault(offs) :
                 IF crash THEN Fault(offs)
                 ELSE /\ Note(offs)
                      /\ IF SelfTestLength(lb) = "last"
                         THEN \* Last entry is zero length: break
                              /\ wsp' = wsp + 3
                              /\ pc' = rpc
                              /\ UNCHANGED <<out, i>>
                         ELSE IF SelfTestLength(lb) = "bad"
                         THEN /\ wsp' = wsp + 4
                              /\ out' = Append(out, <<"Bad length for self test report">>)
                              /\ pc' = rpc
                              /\ UNCHANGED i
                         ELSE /\ wsp' = wsp + 16
                              /\ out' = Append(out, <<"Recent Test", code,
                                                      Bytes(wsp + 4, 12)>>)
                              /\ i' = i + 1
                              /\ UNCHANGED pc
                      /\ UNCHANGED <<rpc, buf, size, calls, walker, end, subpage,
                                     subtype, res, len, fn, esp, plen, ssize, bad>>

\* i < size / 20 is false: the sub-decoder returns.
SelfTestReturn ==
    /\ pc = "self_test"
    /\ UNCHANGED lpVars
    /\ ~SelfTestMore(i, ssize)
    /\ pc' = rpc
    /\ reads' = {}
    /\ UNCHANGED <<rpc, buf, size, rdMax, out, calls, walker, end, subpage,
                   subtype, res, len, fn, wsp, esp, plen, ssize, i, bad>>

\* -------------------------------------- print_hgst_info_background_scan

\* The header: code, flags, length byte, then the fixed fields up to 20.
BgScanHeader ==
    /\ pc = "bg_header"
    /\ UNCHANGED lpVars
    /\ \E b0 \in ReadVals(wsp), b1 \in ReadVals(wsp + 1), lb \in ReadVals(wsp + 3) :
          LET code == le16dec(b0, b1)
              ok   == lb = 16 /\ code = 0
              offs == {wsp, wsp + 1, wsp + 3}
                        \cup (IF ok THEN Range(wsp + 4, 4) \cup Range(wsp + 9, 5)
                              ELSE {})
          IN  \E crash \in MayFault(offs) :
                 IF crash THEN Fault(offs)
                 ELSE /\ Note(offs)
                      /\ wsp' = IF ok THEN wsp + 20 ELSE wsp + 4
                      /\ IF lb # 16
                         THEN /\ out' = Append(out,
                                   <<"Bad length for background scan header">>)
                              /\ pc' = rpc
                              /\ UNCHANGED ssize
                         ELSE IF code # 0
                         THEN /\ out' = Append(out, <<"Expceted code 0, found code", code>>)
                              /\ pc' = rpc
                              /\ UNCHANGED ssize
                         ELSE \* size -= 20
                              /\ ssize' = Sub32(ssize, 20)
                              /\ out' = out \o
                                   << <<"Power On Minutes", Bytes(wsp + 4, 4)>>,
                                      <<"BMS Status", Bytes(wsp + 9, 1)>>,
                                      <<"Number of BMS", Bytes(wsp + 10, 2)>>,
                                      <<"Progress Current BMS", Bytes(wsp + 12, 2)>>,
                                      <<"BMS retirements", Div32(ssize', 24)>> >>
                              /\ pc' = "bg_retire"
                      /\ UNCHANGED <<rpc, buf, size, calls, walker, end, subpage,
                                     subtype, res, len, fn, esp, plen, i, bad>>

\* The hard coded 8 bytes of a retirement record.
RetirePrefix == <<65, 11, 1, 0, 0, 0, 0, 0>>

\* How many of the 8 bytes the && chain reads: up to the first that differs.
PrefixRead(p) ==
    LET diff == { k \in 1 .. 8 : p[k] # RetirePrefix[k] }
    IN  IF diff = {} THEN 8 ELSE SetMax({ k \in diff : \A j \in diff : k <= j }, 8)

\* The values the 8 bytes at off may read as.
PrefixVals(off) ==
    IF Oob(Range(off, 8))
    THEN { p \in [1 .. 8 -> UbBytes \cup { Byte(off + k - 1) : k \in 1 .. 8 }] :
             \A k \in 1 .. 8 : p[k] \in ReadVals(off + k - 1) }
    ELSE { [k \in 1 .. 8 |-> Byte(off + k - 1)] }

RetireAdvance_corruptStays(match) == IF match THEN 8 + 4 + 4 ELSE 0

\* What the cursor advances after the power-on minutes of a retirement
\* record: walker += 8, += 4 (reserved), += 4 (nand) when the 8 bytes match,
\* walker += 16 when they do not.
RetireAdvance(match) == IF match THEN 8 + 4 + 4 ELSE 16

\* One pass of while (size > 0): one retirement record.
BgScanRetire ==
    /\ pc = "bg_retire"
    /\ UNCHANGED lpVars
    /\ ssize # <<0, 0>>
    /\ \E b0 \in ReadVals(wsp), b1 \in ReadVals(wsp + 1), lb \in ReadVals(wsp + 3) :
       \E p \in (IF lb = 20 THEN PrefixVals(wsp + 8) ELSE {RetirePrefix}) :
          LET code  == le16dec(b0, b1)
              match == p = RetirePrefix
              offs  == {wsp, wsp + 1, wsp + 3}
                         \cup (IF lb = 20
                               THEN Range(wsp + 4, 4) \cup Range(wsp + 8, PrefixRead(p))
                                      \cup (IF match THEN Range(wsp + 20, 4) ELSE {})
                               ELSE {})
          IN  \E crash \in MayFault(offs) :
                 IF crash THEN Fault(offs)
                 ELSE /\ Note(offs)
                      /\ IF lb # 20
                         THEN /\ wsp' = wsp + 4
                              /\ out' = Append(out, <<"Bad length parameter">>)
                              /\ pc' = rpc
                         ELSE IF match
                         THEN /\ wsp' = wsp + 8 + RetireAdvance(match)
                              /\ out' = out \o
                                   << <<"Retirement number", code>>,
                                      <<"NAND (C/T)BBBPPP", Bytes(wsp + 20, 4)>> >>
                              /\ UNCHANGED pc
                         ELSE /\ wsp' = wsp + 8 + RetireAdvance(match)
                              /\ out' = Append(out, <<"Parameter entry corrupt", code>>)
                              /\ UNCHANGED pc
                      /\ UNCHANGED <<rpc, buf, size, calls, walker, end, subpage,
                                     subtype, res, len, fn, esp, plen, ssize, i, bad>>

\* while (size > 0) is false: the sub-decoder returns.
BgScanReturn ==
    /\ pc = "bg_retire"
    /\ UNCHANGED lpVars
    /\ ssize = <<0, 0>>
    /\ pc' = rpc
    /\ reads' = {}
    /\ UNCHANGED <<rpc, buf, size, rdMax, out, calls, walker, end, subpage,
                   subtype, res, len, fn, wsp, esp, plen, ssize, i, bad>>

\* ---------- erase_counts, temp_history, ssd_perf, firmware_load

\* The sub-decoders that print fixed fields: each reads FixedReads[fn] bytes
\* from the start of the subpage and returns.
SubFixed ==
    /\ pc = "fixed"
    /\ UNCHANGED lpVars
    /\ LET offs == Range(wsp, FixedReads[fn])
       IN  \E crash \in MayFault(offs) :
              IF crash THEN Fault(offs)
              ELSE /\ Note(offs)
                   /\ wsp' = IF fn = "print_hgst_info_firmware_load" THEN wsp
                             ELSE wsp + FixedReads[fn]
                   /\ out' = Append(out, <<"fields", Bytes(wsp, FixedReads[fn])>>)
                   /\ pc' = rpc
                   /\ UNCHANGED <<rpc, buf, size, calls, walker, end, subpage,
                                  subtype, res, len, fn, esp, plen, ssize, i, bad>>

\* ------------------------------------------------- HGST pages to decode

\* An outer record: subtype byte, reserved byte, length, payload.
Rec(st, l, payload) == <<st, 0, l % 256, l \div 256>> \o payload

\* A parameter of a key/value subpage: key, flags, value length, value.
Param(k, pl, val) == <<k % 256, k \div 256, 0, pl>> \o val

HgstRecords ==
    { Rec(1, 0, <<>>),                                \* no handler, empty
      Rec(2, 5, Param(1, 1, <<7>>)),                  \* one well-formed parameter
      Rec(2, 4, Param(0, 9, <<>>)),                   \* value length 9, nothing left
      Rec(3, 11, Param(32768, 2, <<1, 2>>) \o <<9, 0, 0>>), \* second parameter cut
      Rec(5, 200, <<>>),                              \* length beyond the page
      Rec(16, 20, <<1, 0, 0, 16>> \o [k \in 1 .. 16 |-> k]),
      Rec(21, 20, <<0, 0, 0, 16>> \o [k \in 1 .. 16 |-> 0]),
      Rec(21, 44, <<0, 0, 0, 16>> \o [k \in 1 .. 16 |-> 0]
                    \o <<1, 0, 0, 20, 0, 0, 0, 0>> \o RetirePrefix
                    \o <<0, 0, 0, 0, 5, 6, 7, 8>>),   \* one retirement
      Rec(21, 44, <<0, 0, 0, 16>> \o [k \in 1 .. 16 |-> 0]
                    \o <<2, 0, 0, 20, 0, 0, 0, 0>> \o <<65, 11, 2, 0, 0, 0, 0, 0>>
                    \o <<0, 0, 0, 0, 5, 6, 7, 8>>),   \* its prefix differs
      Rec(49, 0, <<>>),
      Rec(50, 16, [k \in 1 .. 16 |-> 30]),
      Rec(55, 2, <<1, 1>>),                           \* shorter than its fields
      Rec(56, 4, <<3, 0, 0, 0>>) }

\* A record that spans the buffer up to its last four bytes.
SkipRec == Rec(1, DEFAULT_SIZE - 12, <<>>)

RECURSIVE Flatten(_)
Flatten(recs) ==
    IF recs = <<>> THEN <<>> ELSE Head(recs) \o Flatten(Tail(recs))

Bodies == UNION { [1 .. k -> HgstRecords] : k \in 0 .. MaxRecs }

\* The header lengths tried with a body: none, too short for a record
\* header, one byte short of the body, the body, the body and one more
\* record header.
HdrLensFor(flat) ==
    {0, 3, Len(flat), Len(flat) + 4} \cup
    (IF Len(flat) > 0 THEN {Len(flat) - 1} ELSE {})

\* Header lengths that end the walk at the end of the buffer and one byte
\* past it.
LargeLens == {DEFAULT_SIZE - 4, DEFAULT_SIZE - 3}

Page(n, hl, flat) == <<n % 256, 0, hl % 256, hl \div 256>> \o flat

\* A page that fills the buffer: an unknown record up to the last 12 bytes,
\* then a 4-byte SSD performance record and an empty unknown one.
TailPage ==
    Page(3, DEFAULT_SIZE - 4,
         Rec(1, DEFAULT_SIZE - 20, [k \in 1 .. DEFAULT_SIZE - 20 |-> 0])
           \o Rec(55, 4, <<1, 1, 1, 1>>) \o Rec(1, 0, <<>>))

HgstPages ==
    UNION { { Page(Len(b), hl, Flatten(b)) : hl \in HdrLensFor(Flatten(b)) } :
              b \in Bodies }
    \cup { Page(1, hl, SkipRec) : hl \in LargeLens }
    \cup { TailPage }

InitCommon ==
    /\ rpc = "done"
    /\ reads = {}
    /\ rdMax = -1
    /\ out = <<>>
    /\ calls = <<>>
    /\ walker = 0
    /\ end = 0
    /\ subpage = 0
    /\ subtype = 0
    /\ res = 0
    /\ len = 0
    /\ fn = "none"
    /\ wsp = 0
    /\ esp = 0
    /\ plen = 0
    /\ ssize = U32(0)
    /\ i = 0
    /\ bad = <<>>

\* No logpage run and no function called on its own.
InitNoCall ==
    /\ log_page = 0
    /\ hexflag = FALSE
    /\ ns_specified = FALSE
    /\ cdata = [elpe |-> 0, ns_smart |-> 0]
    /\ print_fn = "none"
    /\ arg = <<>>
    /\ ret = <<>>

\* logpage -p 0xc1: the device filled a DEFAULT_SIZE buffer with a page.
InitHgst ==
    /\ pc = "header"
    /\ buf \in HgstPages
    /\ size = DEFAULT_SIZE
    /\ InitCommon
    /\ InitNoCall

NextHgst ==
    \/ HgstHeader
    \/ HgstRecord
    \/ HgstCheck
    \/ HgstReturn
    \/ GenParam
    \/ GenReturn
    \/ SelfTestEntry
    \/ SelfTestReturn
    \/ BgScanHeader
    \/ BgScanRetire
    \/ BgScanReturn
    \/ SubFixed

SpecHgst == InitHgst /\ [][NextHgst]_vars

\* ================================================= claims on the HGST page

\* C1: neither the outer walker nor a sub-decoder it calls reads a byte at
\* or beyond the outer end (4 + header length), and the walker's cursor is
\* never beyond that end.
C1_NoReadPastEnd ==
    pc # "header" => rdMax < end /\ walker <= end

Ooops == <<"Ooops! Off the end of the list">>

OoopsAt == { k \in 1 .. Len(out) : out[k] = Ooops }

\* Where the k-th outer record starts if the walk follows the declared
\* lengths of the records called so far.
RecStart(k) ==
    IF k = 1 THEN 4 ELSE calls[k - 1].start + 4 + calls[k - 1].size

\* The length field of the record at off, when it lies in the buffer.
LenAt(off, l) ==
    off + 3 < size => l = le16dec(Byte(off + 2), Byte(off + 3))

\* C2: a record whose start + 4 + declared length exceeds the outer end is
\* never handed to a sub-decoder; the truncation diagnostic is printed once,
\* as the last thing of the page; the records that end at or before the
\* outer end are handed over once each, in buffer order, and all of them
\* when the walk ends without the diagnostic.
C2_TruncatedRecordNotDispatched ==
    LET nxt == RecStart(Len(calls) + 1)
    IN  /\ \A k \in 1 .. Len(calls) :
              /\ calls[k].start = RecStart(k)
              /\ calls[k].start + 4 + calls[k].size <= end
              /\ LenAt(calls[k].start, calls[k].size)
        /\ Cardinality(OoopsAt) <= 1
        /\ OoopsAt # {} => pc = "done" /\ OoopsAt = {Len(out)}
        /\ pc = "done" =>
              IF OoopsAt # {}
              THEN /\ nxt < end
                   /\ walker = nxt + 4 + len
                   /\ walker > end
                   /\ LenAt(nxt, len)
              ELSE nxt >= end /\ walker = nxt

\* C2's case: a page with a record handed over and then a record cut by the
\* outer end.
C2_Witness ==
    /\ pc = "done"
    /\ OoopsAt # {}
    /\ Len(calls) >= 1

\* C3: each parameter of a key/value subpage consumes at most
\* min(value length, bytes left in the subpage, 8) value bytes, and the
\* cursor stays at or before the subpage end.
C3_ValueLengthClamped ==
    (pc = "gen" /\ reads # {}) =>
        LET consumed == Cardinality(reads) - 3
            left     == esp - (wsp - consumed)
        IN  /\ consumed <= plen
            /\ consumed <= left
            /\ consumed <= 8
            /\ wsp <= esp

\* C4: the outer end 4 + header length lies inside the DEFAULT_SIZE buffer.
C4_OuterEndInsideBuffer ==
    pc # "header" => end <= size

\* The positions of a sub-decoder.
SubPcs == {"gen", "self_test", "bg_header", "bg_retire", "fixed"}

RECURSIVE DeclaredChain(_)
\* The starts of the records from off on that end at or before the outer
\* end, following the declared lengths only.
DeclaredChain(off) ==
    IF off + 4 > end THEN <<>>
    ELSE LET l == le16dec(Byte(off + 2), Byte(off + 3))
         IN  IF off + 4 + l > end THEN <<>>
             ELSE <<off>> \o DeclaredChain(off + 4 + l)

\* A step of a sub-decoder leaves the outer cursor and the outer end alone
\* and ends in the sub-decoder, back in the outer loop, or killed.
SubDecoderStep ==
    pc \in SubPcs =>
        /\ walker' = walker
        /\ end' = end
        /\ pc' \in SubPcs \cup {"loop", "fault"}

\* C14: a sub-decoder never moves the outer cursor or the outer end and
\* hands control back to the outer loop (or is killed by an out-of-buffer
\* read); back in the loop the cursor is at the last record's start + 4 +
\* declared length; and when the walk is over the records called are the
\* in-range records of the declared-length chain, whatever their subtypes
\* and whatever their sub-decoders printed.
C14_OuterTraversalByDeclaredLength ==
    /\ [][SubDecoderStep]_vars
    /\ [](pc = "loop" /\ calls # <<>> =>
            walker = calls[Len(calls)].start + 4 + calls[Len(calls)].size)
    /\ [](pc = "done" /\ end <= size =>
            [k \in 1 .. Len(calls) |-> calls[k].start] = DeclaredChain(4))

\* C14's case: a background scan sub-decoder gave up on a bad length and
\* the next record, of an unknown subtype, was still called for, and the
\* walk went on to the end.
C14_Witness ==
    /\ pc = "done"
    /\ Len(calls) = 2
    /\ calls[1].fn = "print_hgst_info_background_scan"
    /\ \E k \in 1 .. Len(out) : out[k] = <<"Bad length parameter">>
    /\ calls[2].fn = "none"
    /\ out[Len(out)] = <<"No handler for page type", 1>>

\* ================================================================ logpage

NVME_LOG_ERROR == 1
NVME_LOG_HEALTH_INFORMATION == 2
NVME_LOG_FIRMWARE_SLOT == 3
INTEL_LOG_TEMP_STATS == 197
INTEL_LOG_ADD_SMART == 202
HGST_INFO_LOG == 193

\* sizeof(struct nvme_error_information_entry)
ErrorEntrySize == 64
\* sizeof(struct nvme_health_information_page)
HealthPageSize == 512
\* sizeof(struct nvme_firmware_page)
FirmwarePageSize == 512
\* sizeof(struct intel_log_temp_stats)
TempStatsSize == 104

LF(id, f, sz) == [log_page |-> id, print_fn |-> f, size |-> sz]

logfuncs ==
    << LF(NVME_LOG_ERROR, "print_log_error", 0),
       LF(NVME_LOG_HEALTH_INFORMATION, "print_log_health", HealthPageSize),
       LF(NVME_LOG_FIRMWARE_SLOT, "print_log_firmware", FirmwarePageSize),
       LF(INTEL_LOG_TEMP_STATS, "print_intel_temp_stats", TempStatsSize),
       LF(INTEL_LOG_ADD_SMART, "print_intel_add_smart", DEFAULT_SIZE),
       LF(HGST_INFO_LOG, "print_hgst_info_log", DEFAULT_SIZE),
       LF(0, "NULL", 0) >>

\* log_page == f->log_page: the int against the entry's uint8_t.
SamePage_truncated(lp, id) == lp % 256 = id

\* log_page == f->log_page
SamePage(lp, id) == lp = id

RECURSIVE logfuncs_scan(_, _)
\* f = logfuncs + n; while (f->log_page > 0) { ... f++; }: the entry the
\* loop stops at with a match, or nothing.
logfuncs_scan(lp, n) ==
    IF logfuncs[n + 1].log_page > 0
    THEN IF SamePage(lp, logfuncs[n + 1].log_page)
         THEN [found |-> TRUE, print_fn |-> logfuncs[n + 1].print_fn,
               size |-> logfuncs[n + 1].size]
         ELSE logfuncs_scan(lp, n + 1)
    ELSE [found |-> FALSE, print_fn |-> "print_hex", size |-> DEFAULT_SIZE]

\* print_fn = print_hex; size = DEFAULT_SIZE; if (!hexflag) { the scan }
Resolve(lp, hex) ==
    IF hex THEN [found |-> FALSE, print_fn |-> "print_hex", size |-> DEFAULT_SIZE]
    ELSE logfuncs_scan(lp, 0)

ErrorLogSize_asRegistered(sz, lp, elpe) == sz

\* if (log_page == NVME_LOG_ERROR) { size = sizeof(entry); size *= (cdata.elpe + 1); }
ErrorLogSize(sz, lp, elpe) ==
    IF lp = NVME_LOG_ERROR THEN ErrorEntrySize * (elpe + 1) ELSE sz

\* The namespace checks after read_controller_data: a namespace takes only
\* the health page, and only when the controller says so.
LogpageArgs ==
    /\ pc = "args"
    /\ pc' = IF ns_specified /\ (log_page # NVME_LOG_HEALTH_INFORMATION
                                   \/ cdata.ns_smart = 0)
             THEN "errx" ELSE "resolve"
    /\ UNCHANGED <<buf, size, out, calls, decVars, log_page, hexflag,
                   ns_specified, cdata, print_fn, arg, ret>>

\* The choice of decoder and size.
LogpageResolve ==
    /\ pc = "resolve"
    /\ LET r == Resolve(log_page, hexflag)
       IN  /\ print_fn' = r.print_fn
           /\ size' = ErrorLogSize(r.size, log_page, cdata.elpe)
    /\ pc' = "alloc"
    /\ UNCHANGED <<buf, out, calls, decVars, log_page, hexflag, ns_specified,
                   cdata, arg, ret>>

\* buf = get_log_buffer(size): malloc and memset to zero.
GetLogBuffer ==
    /\ pc = "alloc"
    /\ buf' = <<>>
    /\ calls' = Append(calls, [op |-> "get_log_buffer", size |-> size])
    /\ pc' = "read"
    /\ UNCHANGED <<size, out, decVars, log_page, hexflag, ns_specified, cdata,
                   print_fn, arg, ret>>

\* What the device may have written at the start of the buffer.
Fetched == { <<>>, <<1>>, <<1, 0, 4, 0>> }

AfterFetch_goesOn(r) == "print"

\* Where logpage goes after read_logpage: err() and errx() end the process,
\* a return leads to print_fn.
AfterFetch(r) == IF r = "ok" THEN "print" ELSE "err"

\* read_logpage(fd, log_page, nsid, buf, size): the ioctl fails, the
\* completion is an error, or the buffer is filled.
ReadLogpage ==
    /\ pc = "read"
    /\ \E r \in {"ioctl failed", "completion error", "ok"} :
          /\ calls' = Append(calls, [op |-> "read_logpage",
                                     log_page |-> log_page % 256,
                                     size |-> size, result |-> r])
          /\ pc' = AfterFetch(r)
          /\ IF r = "ok" THEN buf' \in Fetched ELSE UNCHANGED buf
    /\ UNCHANGED <<size, out, decVars, log_page, hexflag, ns_specified, cdata,
                   print_fn, arg, ret>>

\* print_fn(buf, size); close(fd); exit(0).
LogpagePrint ==
    /\ pc = "print"
    /\ calls' = Append(calls, [op |-> print_fn, size |-> size])
    /\ pc' = "exit"
    /\ UNCHANGED <<buf, size, out, decVars, log_page, hexflag, ns_specified,
                   cdata, print_fn, arg, ret>>

\* Page ids of -p: the registered ones, unregistered ones, 0, a negative
\* one, and ones that equal a registered id modulo 256.
PageIds == {-1, 0, 1, 2, 3, 4, 193, 197, 202, 255, 257, 449}

\* cdata.elpe is a uint8_t.
ElpeVals == {0, 1, 63, 255}

InitLogpage ==
    /\ pc = "args"
    /\ log_page \in PageIds
    /\ hexflag \in BOOLEAN
    /\ ns_specified \in BOOLEAN
    /\ cdata \in [elpe : ElpeVals, ns_smart : {0, 1}]
    /\ print_fn = "unset"
    /\ size = 0
    /\ buf = <<>>
    /\ arg = <<>>
    /\ ret = <<>>
    /\ InitCommon

Next ==
    \/ LogpageArgs
    \/ LogpageResolve
    \/ GetLogBuffer
    \/ ReadLogpage
    \/ LogpagePrint

Spec == InitLogpage /\ [][Next]_vars

\* --------------------------------------------------- claims on logpage

\* The entries of the registry: those before the terminating {0, NULL, 0}.
Registry == 1 .. Len(logfuncs) - 1

Matches(lp) == { n \in Registry : logfuncs[n].log_page = lp }

First(S) == CHOOSE n \in S : \A k \in S : n <= k

Resolved == pc \in {"alloc", "read", "print", "exit", "err"}

\* C5: the decoder is print_hex when the hex flag is set or no registry
\* entry has the page id, and the decoder of the first registry entry with
\* the page id otherwise; it is never unset.
C5_DecoderChoice ==
    Resolved =>
        /\ print_fn = IF hexflag \/ Matches(log_page) = {} THEN "print_hex"
                      ELSE logfuncs[First(Matches(log_page))].print_fn
        /\ print_fn \notin {"unset", "NULL", "none"}

\* C5's case: a registered page without the hex flag, and an unregistered
\* one that equals a registered id modulo 256.
C5_Witness ==
    /\ Resolved
    /\ ~hexflag
    /\ log_page = 449
    /\ print_fn = "print_hex"

\* The size C6 states for a page.
ExpectedSize ==
    IF log_page = NVME_LOG_ERROR THEN ErrorEntrySize * (cdata.elpe + 1)
    ELSE IF ~hexflag /\ Matches(log_page) # {}
         THEN logfuncs[First(Matches(log_page))].size
    ELSE DEFAULT_SIZE

\* C6: the size handed to get_log_buffer and to read_logpage is
\* entry size * (elpe + 1) for the error page, the registered size for a
\* page found with the hex flag off, DEFAULT_SIZE otherwise, and is never 0.
C6_BufferSize ==
    /\ Resolved => size = ExpectedSize /\ size > 0
    /\ \A k \in 1 .. Len(calls) :
          calls[k].op \in {"get_log_buffer", "read_logpage"} =>
              calls[k].size = ExpectedSize /\ calls[k].size > 0

\* C6's case: the error page read without the hex flag, whose registered
\* size is the 0 placeholder.
C6_Witness ==
    /\ pc = "print"
    /\ log_page = NVME_LOG_ERROR
    /\ ~hexflag
    /\ cdata.elpe = 63
    /\ Len(calls) = 2
    /\ calls[2].size = 4096

\* The calls of a whole run, in order, each with its size argument.
PipelineCalls ==
    << <<"get_log_buffer", size>>, <<"read_logpage", size>>, <<print_fn, size>> >>

\* The calls made so far.
CallsSoFar == [k \in 1 .. Len(calls) |-> <<calls[k].op, calls[k].size>>]

\* The fetch failed: the ioctl, or the completion it returned.
FetchFailed == Len(calls) >= 2 /\ calls[2].result # "ok"

\* How many of them have been made at each position of logpage.
CallsMade ==
    IF pc \in {"args", "resolve", "errx", "alloc"} THEN 0
    ELSE IF pc = "read" THEN 1
    ELSE IF pc \in {"print", "err"} THEN 2
    ELSE 3

\* The decoder works on the buffer and the size it is given.
DecodeInPlace ==
    pc = "print" => buf' = buf /\ size' = size /\ pc' = "exit"

\* A step is taken only by a process that has not ended.
StepOfLiveProcess == pc \notin {"err", "exit", "errx"}

\* C19: the calls of a run are one get_log_buffer of the resolved size,
\* then one read_logpage into the zero-filled buffer, then one call of the
\* decoder with the same buffer and size, then exit; after a failed fetch
\* the process has ended with two calls made and the decoder not among them.
C19_PipelineOrder ==
    /\ [](CallsSoFar = SubSeq(PipelineCalls, 1, CallsMade))
    /\ [](pc = "read" => buf = <<>>)
    /\ [](Len(calls) >= 2 => calls[2].log_page = log_page % 256)
    /\ [](FetchFailed => pc = "err" /\ Len(calls) = 2)
    /\ [](pc = "err" => FetchFailed)
    /\ [][StepOfLiveProcess]_vars
    /\ [][DecodeInPlace]_vars

\* C19's case: a whole run on a page the device filled.
C19_Witness ==
    /\ pc = "exit"
    /\ Len(calls) = 3
    /\ calls[3].op = "print_hgst_info_log"
    /\ buf = <<1, 0, 4, 0>>

\* ========================================================= uint128_to_str

UINT128_DIG == 39

StrDigit_octal(v) == HexDigit(v % 8)

\* u % 10 + '0'
StrDigit(v) == HexDigit(v % 10)

\* *p = c, remembering where the write went.
Store(st, c) ==
    CHOOSE t \in { [s EXCEPT !.mem = [o \in DOMAIN s.mem \cup {s.end} |->
                                       IF o = s.end THEN c ELSE s.mem[o]],
                             !.wr = s.wr \cup {s.end},
                             !.end = s.end - 1] : s \in {st} } : TRUE

RECURSIVE str_loop(_)
\* while (u && end >= buf) { *end-- = u % 10 + '0'; u /= 10; }
str_loop(st) ==
    IF st.u # 0 /\ st.end >= 0
    THEN str_loop([Store(st, StrDigit(st.u)) EXCEPT !.u = st.u \div 10])
    ELSE st

\* uint128_to_str(u, buf, buflen) on a buffer of buflen bytes nobody wrote
\* ("?"): whether NULL is returned, the pointer returned otherwise as an
\* offset from buf, the memory after the call, and the offsets written.
uint128_to_str(u, buflen) ==
    LET s0 == [u |-> u, end |-> buflen - 1, wr |-> {},
               mem |-> [o \in 0 .. buflen - 1 |-> "?"]]
        s1 == Store(s0, "NUL")
        s2 == IF u = 0 THEN Store(s1, "0") ELSE s1
        s3 == str_loop(s2)
    IN  [null |-> s3.u # 0, ret |-> s3.end + 1, mem |-> s3.mem, wr |-> s3.wr]

CallUint128ToStr ==
    /\ pc = "uint128_to_str"
    /\ ret' = uint128_to_str(arg.u, arg.buflen)
    /\ pc' = "return"
    /\ UNCHANGED <<buf, size, out, calls, decVars, log_page, hexflag,
                   ns_specified, cdata, print_fn, arg>>

UVals == (0 .. MaxU) \cup {99999, 2147483647}

BufLens == (1 .. MaxBufLen) \cup {11, UINT128_DIG + 1}

InitStr ==
    /\ pc = "uint128_to_str"
    /\ arg \in [u : UVals, buflen : BufLens]
    /\ ret = <<>>
    /\ buf = <<>>
    /\ size = 0
    /\ log_page = 0
    /\ hexflag = FALSE
    /\ ns_specified = FALSE
    /\ cdata = [elpe |-> 0, ns_smart |-> 0]
    /\ print_fn = "none"
    /\ InitCommon

NextStr == CallUint128ToStr

SpecStr == InitStr /\ [][NextStr]_vars

\* ------------------------------------------- claims on uint128_to_str

RECURSIVE NumDigits(_)
\* The number of decimal digits of v.
NumDigits(v) == IF v < 10 THEN 1 ELSE 1 + NumDigits(v \div 10)

\* The characters of the string at off, up to its NUL.
RECURSIVE CString(_, _)
CString(mem, off) ==
    IF off \notin DOMAIN mem \/ mem[off] = "NUL" THEN <<>>
    ELSE <<mem[off]>> \o CString(mem, off + 1)

DecDigits == {"0", "1", "2", "3", "4", "5", "6", "7", "8", "9"}

DigitVal(c) == CHOOSE d \in 0 .. 15 : HexDigit(d) = c

RECURSIVE ParseDec(_)
\* The number a sequence of decimal digits denotes.
ParseDec(str) ==
    IF str = <<>> THEN 0
    ELSE 10 * ParseDec(SubSeq(str, 1, Len(str) - 1)) + DigitVal(str[Len(str)])

Fits == NumDigits(arg.u) + 1 <= arg.buflen

\* C7: for buflen >= 1 the writes stay inside buf[0 .. buflen-1], NULL is
\* returned exactly when the digits and the NUL do not fit, and a string
\* returned has all the digits.
C7_WritesInsideBuffer ==
    pc = "return" =>
        /\ ret.wr \subseteq 0 .. arg.buflen - 1
        /\ ret.null <=> ~Fits
        /\ ~ret.null => Len(CString(ret.mem, ret.ret)) = NumDigits(arg.u)

\* C8: when the buffer is large enough the string returned is the canonical
\* decimal form of u: it parses back to u and starts with '0' only when it
\* is "0" for u = 0.
C8_CanonicalDecimal ==
    (pc = "return" /\ Fits) =>
        /\ ~ret.null
        /\ LET str == CString(ret.mem, ret.ret)
           IN  /\ str # <<>>
               /\ \A k \in 1 .. Len(str) : str[k] \in DecDigits
               /\ ParseDec(str) = arg.u
               /\ str[1] = "0" => arg.u = 0 /\ str = <<"0">>

\* C8's case: a value of several digits, one of them 0, in a buffer that
\* holds it exactly.
C8_Witness ==
    /\ pc = "return"
    /\ arg.u = 105
    /\ arg.buflen = 4
    /\ ~ret.null
    /\ ret.ret = 0

\* =============================================================== kv_lookup

CallKvLookup ==
    /\ pc = "kv_lookup"
    /\ LET r == kv_lookup(arg.kv, arg.kv_count, arg.key)
       IN  /\ ret' = r.name
           /\ bad' = IF r.hit THEN bad ELSE r.name
    /\ pc' = "return"
    /\ UNCHANGED <<rpc, buf, size, reads, rdMax, out, calls, walker, end,
                   subpage, subtype, res, len, fn, wsp, esp, plen, ssize, i,
                   log_page, hexflag, ns_specified, cdata, print_fn, arg>>

KvEntries == { KV(k, n) : k \in {0, 10, 171}, n \in {"first", "second"} }

KvTables == UNION { [1 .. n -> KvEntries] : n \in 0 .. MaxKv }

KvKeys == {0, 9, 10, 171, 255, 32768, 65535, 2147483647}

InitKv ==
    /\ pc = "kv_lookup"
    /\ \E t \in KvTables, k \in KvKeys :
          arg = [kv |-> t, kv_count |-> Len(t), key |-> k]
    /\ ret = <<>>
    /\ buf = <<>>
    /\ size = 0
    /\ log_page = 0
    /\ hexflag = FALSE
    /\ ns_specified = FALSE
    /\ cdata = [elpe |-> 0, ns_smart |-> 0]
    /\ print_fn = "none"
    /\ InitCommon

NextKv == CallKvLookup

SpecKv == InitKv /\ [][NextKv]_vars

\* ------------------------------------------------ claims on kv_lookup

HexDigits == { HexDigit(d) : d \in 0 .. 15 }

RECURSIVE ParseHex(_)
\* The number a sequence of hexadecimal digits denotes.
ParseHex(str) ==
    IF str = <<>> THEN 0
    ELSE 16 * ParseHex(SubSeq(str, 1, Len(str) - 1)) + DigitVal(str[Len(str)])

\* str ends with the hexadecimal digits of v, and with nothing after them.
EndsWithHexOf(str, v) ==
    \E j \in 1 .. Len(str) :
        LET suf == SubSeq(str, j, Len(str))
        IN  /\ \A k \in 1 .. Len(suf) : suf[k] \in HexDigits
            /\ suf[1] = "0" => Len(suf) = 1
            /\ ParseHex(suf) = v

KeyAt == { n \in 1 .. Len(arg.kv) : arg.kv[n].key = arg.key }

\* C9: kv_lookup always returns a name: the name of the first entry with
\* the key when the table has one, and otherwise a made-up name that holds
\* the key in hexadecimal.
C9_LookupTotal ==
    pc = "return" =>
        /\ ret # <<>>
        /\ IF KeyAt # {}
           THEN ret = <<arg.kv[First(KeyAt)].name>>
           ELSE /\ EndsWithHexOf(ret, arg.key)
                /\ SubSeq(ret, 1, Len(AttributeText)) = AttributeText

\* C9's cases: the key twice in the table under different names, and a key
\* the (non-empty) table lacks.
C9_Witness ==
    /\ pc = "return"
    /\ \/ /\ Cardinality(KeyAt) = 2
          /\ arg.kv[1].name # arg.kv[2].name
       \/ /\ KeyAt = {}
          /\ arg.kv # <<>>
          /\ arg.key = 171
          /\ ret = AttributeText \o <<"0", "x", "a", "b">>

\* ==================================================== print_intel_add_smart

smart_kv ==
    << KV(171, "Program Fail Count"), KV(172, "Erase Fail Count"),
       KV(173, "Wear Leveling Count"), KV(184, "End to End Error Count"),
       KV(199, "CRC Error Count"), KV(226, "Timed: Media Wear"),
       KV(227, "Timed: Host Read %"), KV(228, "Timed: Elapsed Time"),
       KV(234, "Thermal Throttle Status"), KV(240, "Retry Buffer Overflows"),
       KV(243, "PLL Lock Loss Count"), KV(244, "NAND Bytes Written"),
       KV(245, "Host Bytes Written") >>

\* uint8_t *end = walker + 150
SmartEnd == 150

\* walker += 12
SmartStride == 12

SmartPrints_zeroToo(key) == TRUE

\* switch (*walker): case 0 breaks without printing, every other case prints.
SmartPrints(key) == key # 0

\* The format the switch picks for a key that prints.
SmartFormat(key) ==
    IF key = 173 THEN "min max ave"
    ELSE IF key = 226 THEN "percent"
    ELSE IF key = 234 THEN "percent times"
    ELSE "raw"

\* le48dec(p), as the 16-bit limbs le16dec(p), le16dec(p + 2), le16dec(p + 4).
le48dec(off) ==
    << le16dec(Byte(off), Byte(off + 1)),
       le16dec(Byte(off + 2), Byte(off + 3)),
       le16dec(Byte(off + 4), Byte(off + 5)) >>

\* One pass of while (walker < end): one 12-byte record.
SmartRecord ==
    /\ pc = "add_smart"
    /\ walker < end
    /\ LET key        == Byte(walker)
           r          == kv_lookup(smart_kv, Len(smart_kv), key)
           normalized == Byte(walker + 3)
           raw        == le48dec(walker + 5)
       IN  /\ bad' = IF r.hit THEN bad ELSE r.name
           /\ out' = IF SmartPrints(key)
                     THEN Append(out, [at |-> walker, name |-> r.name,
                                       normalized |-> normalized,
                                       format |-> SmartFormat(key), raw |-> raw])
                     ELSE out
    /\ Note({walker, walker + 3} \cup Range(walker + 5, 6))
    /\ walker' = walker + SmartStride
    /\ UNCHANGED <<pc, rpc, buf, size, calls, end, subpage, subtype, res, len,
                   fn, wsp, esp, plen, ssize, i, lpVars>>

\* while (walker < end) is false: print_intel_add_smart returns.
SmartReturn ==
    /\ pc = "add_smart"
    /\ walker >= end
    /\ pc' = "done"
    /\ reads' = {}
    /\ UNCHANGED <<rpc, buf, size, rdMax, out, calls, walker, end, subpage,
                   subtype, res, len, fn, wsp, esp, plen, ssize, i, bad, lpVars>>

\* A 12-byte record: key, reserved, normalized value, reserved, raw value,
\* reserved.
SmartRec(key, norm, r0) == <<key, 0, 0, norm, 0, r0, 1, 0, 0, 0, 0, 0>>

SmartRecs ==
    { SmartRec(k, n, 7) : k \in {0, 1, 171, 173, 226, 234}, n \in {0, 100} }

SmartPages == { Flatten(b) : b \in UNION { [1 .. n -> SmartRecs] : n \in 0 .. MaxSmart } }

\* logpage -p 0xca: the device filled a DEFAULT_SIZE buffer with records.
InitSmart ==
    /\ pc = "add_smart"
    /\ buf \in SmartPages
    /\ size = DEFAULT_SIZE
    /\ rpc = "done"
    /\ reads = {}
    /\ rdMax = -1
    /\ out = <<>>
    /\ calls = <<>>
    /\ walker = 0
    /\ end = SmartEnd
    /\ subpage = 0
    /\ subtype = 0
    /\ res = 0
    /\ len = 0
    /\ fn = "none"
    /\ wsp = 0
    /\ esp = 0
    /\ plen = 0
    /\ ssize = U32(0)
    /\ i = 0
    /\ bad = <<>>
    /\ InitNoCall

NextSmart ==
    \/ SmartRecord
    \/ SmartReturn

SpecSmart == InitSmart /\ [][NextSmart]_vars

\* ------------------------------------ claims on print_intel_add_smart

\* C10 as stated: when the first record's key is 0 no attribute line is
\* printed for any record of the buffer.
C10_FirstKeyZeroPrintsNothing ==
    Byte(0) = 0 => out = <<>>

RECURSIVE NonZeroRecords(_, _)
\* The offsets below hi, from off on in steps of 12, of the records whose
\* key is not 0.
NonZeroRecords(off, hi) ==
    IF off >= hi \/ off >= SmartEnd THEN <<>>
    ELSE (IF Byte(off) # 0 THEN <<off>> ELSE <<>>)
           \o NonZeroRecords(off + SmartStride, hi)

\* C10 as amended: a record whose key is 0, the first one included, prints
\* no attribute line, and every record with another key prints one, in
\* buffer order; nothing is printed when every record's key is 0.
C10_ZeroKeyRecordsSkipped ==
    /\ [k \in 1 .. Len(out) |-> out[k].at] = NonZeroRecords(0, walker)
    /\ \A k \in 1 .. Len(out) : Byte(out[k].at) # 0
    /\ (pc = "done" /\ \A n \in 0 .. 12 : Byte(SmartStride * n) = 0) => out = <<>>

\* C10's case: the first record's key is 0, a later one's is not, and the
\* walk is over.
C10_Witness ==
    /\ pc = "done"
    /\ Byte(0) = 0
    /\ Byte(12) = 171
    /\ Len(out) = 1

\* ========================================================== print_log_error

\* Entries the device wrote into the error information page.
MaxErr == 3

\* entry->error_count, the uint64_t at the start of the i-th entry, as its
\* 8 little-endian bytes.
error_count(n) == [k \in 1 .. 8 |-> Byte(ErrorEntrySize * n + k - 1)]

NoErrorCount_lowByte(cnt) == cnt[1] = 0

\* entry->error_count == 0
NoErrorCount(cnt) == \A k \in 1 .. 8 : cnt[k] = 0

\* nentries = size/sizeof(struct nvme_error_information_entry)
nentries == size \div ErrorEntrySize

\* What print_log_error prints first, and its notice.
ErrTitle == [line |-> "Error Information Log"]
NoErrorEntries == [line |-> "No error entries found"]

\* The titles, then if (entry->error_count == 0) { notice; return; }.
LogErrorFirst ==
    /\ pc = "log_error"
    /\ IF NoErrorCount(error_count(0))
       THEN /\ out' = out \o <<ErrTitle, NoErrorEntries>>
            /\ pc' = "done"
       ELSE /\ out' = Append(out, ErrTitle)
            /\ pc' = "log_error_loop"
    /\ i' = 0
    /\ Note(Range(0, 8))
    /\ UNCHANGED <<rpc, buf, size, calls, walker, end, subpage, subtype, res,
                   len, fn, wsp, esp, plen, ssize, bad, lpVars>>

\* One pass of for (i = 0; i < nentries; i++, entry++) that prints.
LogErrorEntry ==
    /\ pc = "log_error_loop"
    /\ i < nentries
    /\ ~NoErrorCount(error_count(i))
    /\ out' = Append(out, [line |-> "Entry", entry |-> i + 1,
                           at |-> ErrorEntrySize * i,
                           error_count |-> error_count(i),
                           fields |-> Bytes(ErrorEntrySize * i + 8, 21)])
    /\ i' = i + 1
    /\ Note(Range(ErrorEntrySize * i, 29))
    /\ UNCHANGED <<pc, rpc, buf, size, calls, walker, end, subpage, subtype,
                   res, len, fn, wsp, esp, plen, ssize, bad, lpVars>>

\* The loop ends: i reached nentries, or the entry's error count is 0.
LogErrorReturn ==
    /\ pc = "log_error_loop"
    /\ IF i < nentries
       THEN /\ NoErrorCount(error_count(i))
            /\ Note(Range(ErrorEntrySize * i, 8))
       ELSE /\ reads' = {}
            /\ UNCHANGED rdMax
    /\ pc' = "done"
    /\ UNCHANGED <<rpc, buf, size, out, calls, walker, end, subpage, subtype,
                   res, len, fn, wsp, esp, plen, ssize, i, bad, lpVars>>

\* An entry: its error count (8 bytes) and the rest of its 64 bytes.
ErrEntry(c0, c1) ==
    <<c0, c1, 0, 0, 0, 0, 0, 0>> \o [k \in 1 .. ErrorEntrySize - 8 |-> k]

\* Error counts 0, 5, 256 (low byte 0) and 261.
ErrEntries == { ErrEntry(c0, c1) : c0 \in {0, 5}, c1 \in {0, 1} }

ErrPages == { Flatten(b) : b \in UNION { [1 .. n -> ErrEntries] : n \in 0 .. MaxErr } }

\* logpage -p 1: the buffer holds elpe + 1 entries, of which the device
\* wrote the first ones.
InitLogError ==
    /\ pc = "log_error"
    /\ \E e \in 0 .. MaxErr : size = ErrorLogSize(0, NVME_LOG_ERROR, e)
    /\ buf \in { b \in ErrPages : Len(b) <= size }
    /\ InitCommon
    /\ InitNoCall

NextLogError ==
    \/ LogErrorFirst
    \/ LogErrorEntry
    \/ LogErrorReturn

SpecLogError == InitLogError /\ [][NextLogError]_vars

\* ------------------------------------------- claims on print_log_error

\* The entries of the buffer whose error count is 0.
ZeroCountEntries ==
    { n \in 0 .. nentries - 1 : \A k \in 0 .. 7 : Byte(ErrorEntrySize * n + k) = 0 }

\* The index of the first entry whose error count is 0, nentries when
\* there is none.
FirstZeroCount ==
    IF ZeroCountEntries = {} THEN nentries
    ELSE CHOOSE n \in ZeroCountEntries : \A m \in ZeroCountEntries : n <= m

\* The entries printed so far: what follows the title.
PrintedEntries == Tail(out)

\* C11: the entries printed are those before the first entry whose error
\* count is 0, in buffer order, never more than size / entry size; once the
\* decoder returns all of them are printed, and when the first entry's count
\* is 0 the output is the title and the 'No error entries found' notice.
C11_ErrorEntriesBeforeFirstZero ==
    pc \in {"log_error_loop", "done"} =>
        IF FirstZeroCount = 0
        THEN out = <<ErrTitle, NoErrorEntries>>
        ELSE /\ Head(out) = ErrTitle
             /\ \A k \in 1 .. Len(PrintedEntries) : PrintedEntries[k].line = "Entry"
             /\ Len(PrintedEntries) <= FirstZeroCount
             /\ Len(PrintedEntries) <= nentries
             /\ \A k \in 1 .. Len(PrintedEntries) :
                   /\ PrintedEntries[k].entry = k
                   /\ PrintedEntries[k].at = ErrorEntrySize * (k - 1)
             /\ pc = "done" => Len(PrintedEntries) = FirstZeroCount

\* C11's case: an entry is printed, the next one's count is 0 and the one
\* after it has a count again.
C11_Witness ==
    /\ pc = "done"
    /\ FirstZeroCount = 1
    /\ nentries >= 3
    /\ 2 \notin ZeroCountEntries
    /\ Len(PrintedEntries) = 1

\* ===================================== print_hgst_info_background_scan alone

\* Retirement records the device wrote into a background scan subpage.
MaxRetire == 2

\* The 20-byte header of the subpage: code, flags, length byte, power on
\* minutes, reserved, status, number of scans, progress, reserved.
BgHeader(code, lb) ==
    <<code, 0, 0, lb, 1, 0, 0, 0, 0, 1, 2, 0, 3, 0, 0, 0, 0, 0, 0, 0>>

\* A 24-byte retirement record: code, flags, length byte, power on minutes,
\* the 8 hard coded bytes (the third as p3), reserved, the NAND block.
BgRetirement(code, lb, p3) ==
    <<code, 0, 0, lb, 9, 0, 0, 0>> \o <<65, 11, p3, 0, 0, 0, 0, 0>>
        \o <<0, 0, 0, 0, 5, 6, 7, 8>>

\* A well-formed header, one with a bad length byte, one with a code.
BgHeaders == { BgHeader(0, 16), BgHeader(0, 0), BgHeader(1, 16) }

\* A well-formed record, one whose 8 bytes differ, one with a bad length.
BgRetirements ==
    { BgRetirement(1, 20, 1), BgRetirement(2, 20, 2), BgRetirement(3, 16, 1) }

BgPayloads ==
    { h \o Flatten(r) : h \in BgHeaders,
                        r \in UNION { [1 .. n -> BgRetirements] : n \in 0 .. MaxRetire } }

\* The lengths the record declares for a payload: the payload's, one that
\* cuts the header, one that cuts the last retirement record.
BgLens(p) == {Len(p), 4, Len(p) - 1}

\* The page holds one record, of subtype 0x15.
BgPages ==
    UNION { { Page(1, 4 + l, Rec(21, l, p)) : l \in BgLens(p) } : p \in BgPayloads }

InitBgScan ==
    /\ pc = "header"
    /\ buf \in BgPages
    /\ size = DEFAULT_SIZE
    /\ InitCommon
    /\ InitNoCall

NextBgScan ==
    \/ HgstHeader
    \/ HgstRecord
    \/ HgstCheck
    \/ HgstReturn
    \/ BgScanHeader
    \/ BgScanRetire
    \/ BgScanReturn

SpecBgScan == InitBgScan /\ [][NextBgScan]_vars

\* ----------------------------- claims on print_hgst_info_background_scan

\* The retirement record at the cursor lies inside the subpage and has the
\* length byte 0x14.
RetirementAtCursor ==
    /\ pc = "bg_retire"
    /\ ssize # <<0, 0>>
    /\ wsp + 24 <= esp
    /\ Byte(wsp + 3) = 20

PrefixAtCursor == [k \in 1 .. 8 |-> Byte(wsp + 8 + k - 1)]

CodeAtCursor == le16dec(Byte(wsp), Byte(wsp + 1))

NandAtCursor == [k \in 1 .. 4 |-> Byte(wsp + 20 + k - 1)]

\* C12: a retirement record inside the subpage with length byte 0x14 whose
\* 8-byte prefix differs from the constant prints 'entry corrupt' with its
\* code and nothing else, the cursor advances by 24 and the decoder stays in
\* its loop; a record with the constant prefix, also one after a corrupt
\* record, prints its retirement number and NAND block and advances by 24.
C12_CorruptPrefixLocalized ==
    [][ RetirementAtCursor =>
          /\ pc' = "bg_retire"
          /\ wsp' = wsp + 24
          /\ out' = IF PrefixAtCursor = RetirePrefix
                    THEN out \o << <<"Retirement number", CodeAtCursor>>,
                                   <<"NAND (C/T)BBBPPP", NandAtCursor>> >>
                    ELSE Append(out, <<"Parameter entry corrupt", CodeAtCursor>>)
      ]_vars

\* C12's case: a corrupt record was reported and the record after it was
\* decoded as a NAND block.
C12_Witness ==
    /\ Len(out) >= 3
    /\ out[Len(out) - 2] = <<"Parameter entry corrupt", 2>>
    /\ out[Len(out) - 1] = <<"Retirement number", 1>>
    /\ out[Len(out)] = <<"NAND (C/T)BBBPPP", <<5, 6, 7, 8>> >>

\* The retirement passes made so far: each prints a retirement, a corrupt
\* entry or the bad length of its record.
RetirePasses ==
    Cardinality({ k \in 1 .. Len(out) :
                    out[k][1] \in {"Retirement number", "Parameter entry corrupt",
                                   "Bad length parameter"} })

\* The header of the subpage was found well-formed.
BgHeaderValid ==
    \E k \in 1 .. Len(out) : out[k][1] = "BMS retirements"

\* C15: after a well-formed header the retirement loop makes at most
\* (size - 20) / 24 passes for a subpage of size >= 20 and none for a
\* smaller one, and a pass reads no byte at or beyond the end of the
\* subpage.
C15_RetirementCount ==
    (fn = "print_hgst_info_background_scan" /\ BgHeaderValid) =>
        /\ RetirePasses <= (IF len >= 20 THEN (len - 20) \div 24 ELSE 0)
        /\ RetirePasses > 0 => \A o \in reads : o < esp

\* ============================== print_log_health, print_log_firmware,
\* ============================== print_intel_temp_stats

\* to128(p): the 16 bytes at p as a number; -1 stands for a value of
\* 2^24 or more.
to128(off) ==
    IF \A k \in 3 .. 15 : Byte(off + k) = 0
    THEN Byte(off) + 256 * Byte(off + 1) + 65536 * Byte(off + 2)
    ELSE -1

RECURSIVE StrAt(_, _)
\* The characters of the C string at offset o of mem.
StrAt(mem, o) == IF mem[o] = "NUL" THEN <<>> ELSE <<mem[o]>> \o StrAt(mem, o + 1)

\* uint128_to_str(to128(p), cbuf, sizeof(cbuf)) as printf's %s prints it,
\* with char cbuf[UINT128_DIG + 1].
CounterText(off) ==
    IF to128(off) < 0 THEN <<"wide">>
    ELSE CHOOSE t \in { IF r.null THEN <<"(null)">> ELSE StrAt(r.mem, r.ret) :
                          r \in {uint128_to_str(to128(off), UINT128_DIG + 1)} } : TRUE

\* The 128-bit counters of the health page, at 32, 48, .. 176.
HealthCounters ==
    << "Data units (512,000 byte) read", "Data units written",
       "Host read commands", "Host write commands",
       "Controller busy time (minutes)", "Power cycles", "Power on hours",
       "Unsafe shutdowns", "Media errors", "No. error info log entries" >>

\* health->temp_sensor[n], n = 0 .. 6, 16 bits each from offset 200.
temp_sensor(n) == le16dec(Byte(200 + 2 * n), Byte(201 + 2 * n))

RECURSIVE SensorLines(_)
\* for (i = 0; i < 7; i++): a sensor that reads 0 is not printed.
SensorLines(n) ==
    IF n >= 7 THEN <<>>
    ELSE (IF temp_sensor(n) = 0 THEN <<>>
          ELSE << [line |-> "Temperature Sensor", n |-> n + 1,
                   text |-> <<temp_sensor(n)>>] >>)
           \o SensorLines(n + 1)

\* print_log_health: every field is read at its place in the page.
PrintLogHealth ==
    /\ pc = "print_log_health"
    /\ out' = out
         \o << [line |-> "SMART/Health Information Log", n |-> 0, text |-> <<>>],
               [line |-> "Critical Warning State", n |-> 0, text |-> <<Byte(0)>>],
               [line |-> "Temperature", n |-> 0,
                text |-> <<le16dec(Byte(1), Byte(2))>>],
               [line |-> "Available spare", n |-> 0, text |-> <<Byte(3)>>],
               [line |-> "Available spare threshold", n |-> 0, text |-> <<Byte(4)>>],
               [line |-> "Percentage used", n |-> 0, text |-> <<Byte(5)>>] >>
         \o [k \in 1 .. Len(HealthCounters) |->
               [line |-> HealthCounters[k], n |-> 0,
                text |-> CounterText(32 + 16 * (k - 1))]]
         \o << [line |-> "Warning Temp Composite Time", n |-> 0,
                text |-> Bytes(192, 4)],
               [line |-> "Error Temp Composite Time", n |-> 0,
                text |-> Bytes(196, 4)] >>
         \o SensorLines(0)
    /\ Note(Range(0, 6) \cup Range(32, 160) \cup Range(192, 8) \cup Range(200, 14))
    /\ pc' = "done"
    /\ UNCHANGED <<rpc, buf, size, calls, walker, end, subpage, subtype, res,
                   len, fn, wsp, esp, plen, ssize, i, bad, lpVars>>

MAX_FW_SLOTS == 7

\* fw->revision[n], n = 0 .. 6, 8 bytes each from offset 8.
revision(n) == [k \in 1 .. 8 |-> Byte(8 + 8 * n + k - 1)]

\* isprint() of the C locale.
isprint(c) == c >= 32 /\ c <= 126

EmptySlot_never(rev) == FALSE

\* fw->revision[i] == 0LLU
EmptySlot(rev) == \A k \in 1 .. 8 : rev[k] = 0

\* The line of slot n + 1.
SlotLine(n) ==
    LET rev    == revision(n)
        status == IF Byte(0) % 8 = n + 1 THEN "  Active" ELSE "Inactive"
    IN  IF EmptySlot(rev)
        THEN [line |-> "Slot", n |-> n + 1, text |-> <<"Empty">>]
        ELSE IF isprint(rev[1])
        THEN [line |-> "Slot", n |-> n + 1, text |-> <<status, "%.8s", rev>>]
        ELSE [line |-> "Slot", n |-> n + 1, text |-> <<status, "%016jx", rev>>]

\* print_log_firmware: for (i = 0; i < MAX_FW_SLOTS; i++).
PrintLogFirmware ==
    /\ pc = "print_log_firmware"
    /\ out' = out \o << [line |-> "Firmware Slot Log", n |-> 0, text |-> <<>>] >>
                  \o [k \in 1 .. MAX_FW_SLOTS |-> SlotLine(k - 1)]
    /\ Note({0} \cup Range(8, 8 * MAX_FW_SLOTS))
    /\ pc' = "done"
    /\ UNCHANGED <<rpc, buf, size, calls, walker, end, subpage, subtype, res,
                   len, fn, wsp, esp, plen, ssize, i, bad, lpVars>>

\* The 64-bit fields print_intel_temp_stats prints, by their index in the
\* page.
TempFields ==
    << [line |-> "Current", at |-> 0],
       [line |-> "Overtemp Last Flags", at |-> 1],
       [line |-> "Overtemp Lifetime Flags", at |-> 2],
       [line |-> "Max Temperature", at |-> 3],
       [line |-> "Min Temperature", at |-> 4],
       [line |-> "Max Operating Temperature", at |-> 10],
       [line |-> "Min Operating Temperature", at |-> 11],
       [line |-> "Estimated Temperature Offset", at |-> 12] >>

\* print_intel_temp_stats
PrintIntelTempStats ==
    /\ pc = "print_intel_temp_stats"
    /\ out' = out \o << [line |-> "Intel Temperature Log", n |-> 0, text |-> <<>>] >>
                  \o [k \in 1 .. Len(TempFields) |->
                        [line |-> TempFields[k].line, n |-> 0,
                         text |-> Bytes(8 * TempFields[k].at, 8)]]
    /\ Note(UNION { Range(8 * TempFields[k].at, 8) : k \in 1 .. Len(TempFields) })
    /\ pc' = "done"
    /\ UNCHANGED <<rpc, buf, size, calls, walker, end, subpage, subtype, res,
                   len, fn, wsp, esp, plen, ssize, i, bad, lpVars>>

\* ============================================ logpage with its decoders

\* Where a registered decoder starts.
DecoderEntry(f) ==
    IF f = "print_log_error" THEN "log_error"
    ELSE IF f = "print_intel_add_smart" THEN "add_smart"
    ELSE IF f = "print_hgst_info_log" THEN "header"
    ELSE f

\* print_fn(buf, size), entering the decoder: print_intel_add_smart starts
\* with walker = buf and end = walker + 150, the others at the buffer.
LogpageDecode ==
    /\ pc = "print"
    /\ calls' = Append(calls, [op |-> print_fn, size |-> size])
    /\ pc' = DecoderEntry(print_fn)
    /\ walker' = 0
    /\ end' = IF print_fn = "print_intel_add_smart" THEN SmartEnd ELSE 0
    /\ UNCHANGED <<rpc, buf, size, reads, rdMax, out, subpage, subtype, res,
                   len, fn, wsp, esp, plen, ssize, i, bad, lpVars>>

\* read_logpage when the device leaves the zero-filled buffer as it is.
ReadLogpageZero ==
    /\ ReadLogpage
    /\ buf' = <<>>

\* logpage -p <a registered page>, without -x.
InitZero ==
    /\ pc = "args"
    /\ log_page \in { logfuncs[n].log_page : n \in 1 .. Len(logfuncs) - 1 }
    /\ hexflag = FALSE
    /\ ns_specified \in BOOLEAN
    /\ cdata \in [elpe : ElpeVals, ns_smart : {0, 1}]
    /\ print_fn = "unset"
    /\ size = 0
    /\ buf = <<>>
    /\ arg = <<>>
    /\ ret = <<>>
    /\ InitCommon

NextZero ==
    \/ LogpageArgs
    \/ LogpageResolve
    \/ GetLogBuffer
    \/ ReadLogpageZero
    \/ LogpageDecode
    \/ LogErrorFirst
    \/ PrintLogHealth
    \/ PrintLogFirmware
    \/ PrintIntelTempStats
    \/ SmartRecord
    \/ SmartReturn
    \/ HgstHeader
    \/ HgstReturn

\* The program runs on: a step that can be taken is taken.
SpecZero == InitZero /\ [][NextZero]_vars /\ WF_vars(NextZero)

\* --------------------------------------- claims on zero-filled buffers

\* A decoder is running.
Decoding ==
    pc \in {"log_error", "log_error_loop", "print_log_health",
            "print_log_firmware", "print_intel_temp_stats", "add_smart",
            "header", "loop", "check"}

\* What the decoder of a zero-filled page has printed once it is done.
ZeroOutput ==
    IF print_fn = "print_log_error" THEN out = <<ErrTitle, NoErrorEntries>>
    ELSE IF print_fn = "print_intel_add_smart" THEN out = <<>>
    ELSE IF print_fn = "print_hgst_info_log"
         THEN out = << <<"HGST Extra Info Log">> >>
    ELSE IF print_fn = "print_log_firmware"
         THEN /\ Len(out) = 1 + MAX_FW_SLOTS
              /\ \A k \in 2 .. Len(out) : out[k].text = <<"Empty">>
    ELSE IF print_fn = "print_log_health"
         THEN /\ Len(out) = 18
              /\ \A k \in 7 .. 16 : out[k].text = <<"0">>
    ELSE /\ print_fn = "print_intel_temp_stats"
         /\ Len(out) = 9
         /\ \A k \in 2 .. 9 : out[k].text = <<0, 0, 0, 0, 0, 0, 0, 0>>

\* C13: on a zero-filled buffer of the dispatched size every registered
\* decoder reads only inside the buffer, is not killed and prints no
\* diagnostic: the error log prints its 'no entries' notice, the additional
\* SMART walker no attribute, the HGST walker calls no sub-decoder, the
\* fixed pages their zero fields; and every decoder that starts returns.
C13_ZeroBufferDecodes ==
    /\ [](/\ rdMax < size
          /\ pc # "fault"
          /\ \A k \in 1 .. Len(calls) :
                calls[k].op \in {"get_log_buffer", "read_logpage", print_fn}
          /\ pc = "add_smart" => out = <<>>
          /\ pc = "done" => ZeroOutput)
    /\ (Decoding ~> pc = "done")

\* C13's case: the HGST walker has returned from a zero-filled page.
C13_Witness ==
    /\ pc = "done"
    /\ print_fn = "print_hgst_info_log"
    /\ buf = <<>>
    /\ size = DEFAULT_SIZE
    /\ rdMax = 3

\* ========================================== print_hgst_info_self_test alone

\* Entries the device wrote into a self test subpage.
MaxSelfTest == 2

\* A 20-byte self test entry as the device lays it out: code, flags, length
\* byte, results, number, power on hours, 8 bytes of LBA, sense key,
\* additional sense code and qualifier, vendor specific detail.
StEntry(code, lb, vs) ==
    <<code, 0, 0, lb, 1, 2, 3, 0>> \o <<4, 0, 0, 0, 0, 0, 0, 0>> \o <<5, 6, 7, vs>>

\* Entries with a good, a zero and a bad length byte, and with a vendor
\* byte that reads as each of these.
StEntries == { StEntry(9, lb, vs) : lb \in {16, 0, 5}, vs \in {0, 16, 5} }

StPayloads ==
    { Flatten(e) : e \in UNION { [1 .. n -> StEntries] : n \in 0 .. MaxSelfTest } }

\* The lengths the record declares: the payload's, and one byte less.
StLens(p) == {Len(p)} \cup (IF Len(p) > 0 THEN {Len(p) - 1} ELSE {})

\* The page holds one record, of subtype 0x10.
StPages ==
    UNION { { Page(1, 4 + Len(p), Rec(16, l, p)) : l \in StLens(p) } : p \in StPayloads }

InitSelfTest ==
    /\ pc = "header"
    /\ buf \in StPages
    /\ size = DEFAULT_SIZE
    /\ InitCommon
    /\ InitNoCall

NextSelfTest ==
    \/ HgstHeader
    \/ HgstRecord
    \/ HgstCheck
    \/ HgstReturn
    \/ SelfTestEntry
    \/ SelfTestReturn

SpecSelfTest == InitSelfTest /\ [][NextSelfTest]_vars

\* ------------------------------- claims on print_hgst_info_self_test

\* C16: at the start of every iteration i < size / 20 the cursor is 20 * i
\* bytes into the subpage, so that the entry's code and length byte are read at 20 * i and
\* 20 * i + 3, and no read of the loop is at or beyond the subpage's size.
C16_EntriesAtTwentyByteStride ==
    /\ (pc = "self_test" /\ SelfTestMore(i, ssize)) => wsp = subpage + 20 * i
    /\ (fn = "print_hgst_info_self_test" /\ pc \in {"self_test", "loop"}) =>
           \A o \in reads : o < esp

\* The entries printed so far.
RecentTests ==
    Cardinality({ k \in 1 .. Len(out) : out[k][1] = "Recent Test" })

BadSelfTestLength == <<"Bad length for self test report">>

\* A pass of the loop, by the length byte at the cursor: 0x10 prints the
\* entry and stays in the loop, 0 leaves it printing nothing, any other
\* value leaves it printing the diagnostic only.
SelfTestPass ==
    (pc = "self_test" /\ SelfTestMore(i, ssize)) =>
        IF Byte(wsp + 3) = 16
        THEN /\ pc' = "self_test"
             /\ i' = i + 1
             /\ Len(out') = Len(out) + 1
             /\ SubSeq(out', 1, Len(out)) = out
             /\ out'[Len(out')][1] = "Recent Test"
        ELSE IF Byte(wsp + 3) = 0
        THEN pc' = rpc /\ out' = out
        ELSE pc' = rpc /\ out' = Append(out, BadSelfTestLength)

\* Outside the loop no entry is printed.
NoEntryOutsideLoop ==
    pc # "self_test" => RecentTests' = RecentTests

C18_CursorWithinDeclaredEnd ==
    pc \in {"add_smart", "done"} =>
        /\ walker % SmartStride = 0
        /\ walker <= SmartEnd
        /\ rdMax < SmartEnd

====
